---- MODULE Spec2Model ----
(***************************************************************************)
(* Model of leap_tracker.py: the LeapServer listener (on_frame, called on  *)
(* the SDK thread), the publish loop (start_transmit, on the main thread), *)
(* the message builders and the cyclic test-pose generator, and main().    *)
(*                                                                         *)
(* Time and angles are fixed-point integers in thousandths (1.0 = 1000).   *)
(* Angles read from the tracking device are symbolic terms naming the      *)
(* object, the vector and the attribute they are read from.                *)
(***************************************************************************)
EXTENDS Integers, Sequences, FiniteSets, TLC

VARIABLES
    t,            \* self.t
    hand,         \* self.hand
    fingers,      \* self.fingers
    joint_names,  \* self.joint_names
    frameNo,      \* number of frames the controller has delivered
    fpc,          \* position of the SDK thread inside on_frame
    frame,        \* on_frame's local frame
    flist,        \* on_frame: fingers of the sorted list still to be stored
    shown,        \* the hand last logged by show_data
    pc,           \* position of the main thread
    quitting,     \* start_transmit's local flag
    shutdown,     \* rospy.is_shutdown()
    iter,         \* completed iterations of the publish loop
    hreads,       \* build_joint_state_msg: the self.hand values read so far
    freads,       \* build_joint_state_msg: the list the finger loop runs over
    pos,          \* build_joint_state_msg: pos
    js_msg,       \* the JointState message being built / last built
    preads,       \* build_pose_stamped_msg: the self.hand values read so far
    tp,           \* the last value returned by test_pose
    ps_msg,       \* the PoseStamped message last built
    jsCount,      \* messages published on js_pub
    psCount,      \* messages published on ps_pub
    tsCount,      \* messages published on ts_pub
    jsOut,        \* last message published on js_pub
    psOut,        \* last message published on ps_pub
    logs,         \* log calls of main and start_transmit, in order
    exc,          \* exception that left start_transmit
    listener,     \* the listener is registered with the controller
    raced,        \* history: on_frame was active during the build of js_msg
    partialSeen   \* history: a frame's first hand had fewer than five fingers

vars == <<t, hand, fingers, joint_names, frameNo, fpc, frame, flist, shown,
          pc, quitting, shutdown, iter, hreads, freads, pos, js_msg, preads, tp,
          ps_msg, jsCount, psCount, tsCount, jsOut, psOut, logs, exc,
          listener, raced, partialSeen>>

frameVars == <<frameNo, fpc, frame, flist, shown>>
selfVars  == <<t, hand, fingers, joint_names>>
outVars   == <<jsCount, psCount, tsCount, jsOut, psOut>>
buildVars == <<hreads, freads, pos, js_msg, preads, tp, ps_msg>>
ctlVars   == <<quitting, shutdown, iter, logs, exc, listener>>

(***************************************************************************)
(* Bounds of the model.                                                    *)
(***************************************************************************)
MaxIter       == 3    \* loop iterations in Spec
MaxRaceIter   == 1    \* loop iterations in SpecRace
MaxFrames     == 2    \* frames delivered in SpecRace
MaxSeqFrames  == 3    \* frames delivered in SpecFrames
MaxFeedIter   == 2    \* loop iterations in SpecFeed
MaxFeedFrames == 2    \* frames delivered in SpecFeed
MaxHands      == 2    \* hands in one frame
MaxPoseT      == 76000  \* largest t handed to test_pose in SpecPose and SpecCycle

(***************************************************************************)
(* Constants of the program.                                               *)
(***************************************************************************)
FINGER_NAMES   == <<"thumb", "index", "middle", "ring", "pinky">>
FINGER_BONES   == <<"meta", "prox", "mid", "dist">>
POS_ATTRIBUTES == <<"x", "y", "z">>
ORI_ATTRIBUTES == <<"roll", "pitch", "yaw">>

TYPE_THUMB == 0
TYPE_PINKY == 4
FingerTypes == 0..4

STEP     == 10        \* self.t += 0.01
PI_MICRO == 3141593   \* math.pi, in millionths

\* math.pi * n, in thousandths
PiTimes(n) == (n * PI_MICRO + 500) \div 1000

\* math.pi * n, in millionths
PiMicro(n) == n * PI_MICRO

\* x % (math.pi * n) for x in thousandths, in millionths
ModPi(x, n) == (x * 1000) % PiMicro(n)

(***************************************************************************)
(* Objects of the tracking device.                                         *)
(***************************************************************************)
\* Leap.Hand() and Leap.Finger(): the invalid objects on_init stores
InvalidHand   == [frame |-> 0, idx |-> 0, fingers |-> {}]
InvalidFinger == [frame |-> 0, idx |-> 0, type |-> -1]

\* the k-th hand of frame n, with fingers of the types in fs
Hand(n, k, fs) == [frame |-> n, idx |-> k, fingers |-> fs]
\* hand.fingers: the finger of type ty of hand h
FingerOf(h, ty) == [frame |-> h.frame, idx |-> h.idx, type |-> ty]

\* the sets of finger types a frame's first hand may report
FingerSets == {{}, {TYPE_THUMB, 2, TYPE_PINKY}, FingerTypes}

\* controller.frame(): frame n, with nh hands, the first with fingers fs
Frame(n, nh, fs) ==
    [id |-> n,
     hands |-> [k \in 1..nh |-> Hand(n, k, IF k = 1 THEN fs ELSE FingerTypes)]]

\* the frames the controller may deliver as its n-th: no hand, one hand with
\* any of FingerSets, or several hands with all their fingers
Frames(n) ==
    {Frame(n, 0, {})} \cup { Frame(n, 1, fs) : fs \in FingerSets }
                      \cup { Frame(n, nh, FingerTypes) : nh \in 2..MaxHands }

\* getattr(hand.<vec>, attr): the reading named by the hand's frame and place
\* in it, the vector and the attribute
HandAngle(h, vec, attr) == <<h.frame, h.idx, vec, attr>>
\* getattr(finger.bone(j).direction, attr): the reading named by the finger's
\* frame, hand and type, the bone and the attribute
BoneAngle(f, j, attr)   == <<f.frame, f.idx, f.type, j, attr>>

\* sorted(fingers, key=lambda f: f.type())
RECURSIVE SortedByType(_, _)
SortedByType(h, fs) ==
    IF fs = {} THEN <<>>
    ELSE LET m == CHOOSE x \in fs : \A y \in fs : x <= y
         IN  <<FingerOf(h, m)>> \o SortedByType(h, fs \ {m})

\* faulty variant: thumb and pinky stored under each other's name
SelectedFingerSwapped(finger) ==
    IF finger.type = TYPE_THUMB THEN FINGER_NAMES[Len(FINGER_NAMES)]
    ELSE IF finger.type = TYPE_PINKY THEN FINGER_NAMES[1]
    ELSE FINGER_NAMES[finger.type + 1]

\* on_frame's choice of the key a finger is stored under
SelectedFinger(finger) ==
    IF finger.type = TYPE_THUMB THEN FINGER_NAMES[1]
    ELSE IF finger.type = TYPE_PINKY THEN FINGER_NAMES[Len(FINGER_NAMES)]
    ELSE FINGER_NAMES[finger.type + 1]

(***************************************************************************)
(* Joint names. A formatted name "a.b.c" is the tuple of its parts.        *)
(***************************************************************************)
Format2(a, b)    == <<a, b>>
Format3(a, b, c) == <<a, b, c>>

\* faulty variant: the comprehension runs over the attributes before the bones
JointNamesAttrMajor ==
    [i \in 1..Len(ORI_ATTRIBUTES) |-> Format2("hand", ORI_ATTRIBUTES[i])] \o
    [i \in 1..(Len(FINGER_NAMES) * Len(FINGER_BONES) * Len(ORI_ATTRIBUTES)) |->
        LET nb == Len(FINGER_BONES)
            no == Len(ORI_ATTRIBUTES)
            f  == (i - 1) \div (nb * no)
            o  == ((i - 1) \div nb) % no
            b  == (i - 1) % nb
        IN  Format3(FINGER_NAMES[f + 1], FINGER_BONES[b + 1], ORI_ATTRIBUTES[o + 1])]

\* the list comprehension of build_joint_state_msg
JointNames ==
    [i \in 1..Len(ORI_ATTRIBUTES) |-> Format2("hand", ORI_ATTRIBUTES[i])] \o
    [i \in 1..(Len(FINGER_NAMES) * Len(FINGER_BONES) * Len(ORI_ATTRIBUTES)) |->
        LET nb == Len(FINGER_BONES)
            no == Len(ORI_ATTRIBUTES)
            f  == (i - 1) \div (nb * no)
            b  == ((i - 1) \div no) % nb
            o  == (i - 1) % no
        IN  Format3(FINGER_NAMES[f + 1], FINGER_BONES[b + 1], ORI_ATTRIBUTES[o + 1])]

\* a float the program computes itself (not read from the device)
Const(v) == <<v>>

\* [0.0] * n
Zeros(n) == [i \in 1..n |-> Const(0)]

\* JointState()
EmptyJointState == [name |-> <<>>, position |-> <<>>]

\* "Roll precision hack": the vector an attribute of the hand is read from
HandVector(attr) == IF attr = "roll" THEN "palm_normal" ELSE "direction"

\* one pass of the hand loop: attribute i is read from the hand value h
JsHandStep(msg, i, h) ==
    LET attr == ORI_ATTRIBUTES[i]
    IN  [name     |-> Append(msg.name, Format2("hand", attr)),
         position |-> [msg.position EXCEPT ![i] = HandAngle(h, HandVector(attr), attr)]]

\* the attribute loop of one bone
RECURSIVE JsAttrLoop(_, _, _, _, _, _)
JsAttrLoop(msg, p, fname, finger, j, k) ==
    IF k > Len(ORI_ATTRIBUTES) THEN [msg |-> msg, pos |-> p]
    ELSE LET attr == ORI_ATTRIBUTES[k]
             m2   == [name     |-> Append(msg.name, Format3(fname, FINGER_BONES[j], attr)),
                      position |-> [msg.position EXCEPT ![p + 1] = BoneAngle(finger, j - 1, attr)]]
         IN  JsAttrLoop(m2, p + 1, fname, finger, j, k + 1)

\* the bone loop of one finger
RECURSIVE JsBoneLoop(_, _, _, _, _)
JsBoneLoop(msg, p, fname, finger, j) ==
    IF j > Len(FINGER_BONES) THEN [msg |-> msg, pos |-> p]
    ELSE LET r == JsAttrLoop(msg, p, fname, finger, j, 1)
         IN  JsBoneLoop(r.msg, r.pos, fname, finger, j + 1)

(***************************************************************************)
(* The test-pose generator.                                                *)
(***************************************************************************)
\* sin on [0, pi], argument in thousandths, result in thousandths
\* (Bhaskara's rational approximation, on hundredths)
HalfSine(y) ==
    LET c == y \div 10
        P == PiTimes(1) \div 10
        p == c * (P - c)
    IN  (16000 * p) \div (5 * P * P - 4 * p)

\* math.sin(x) * 1000
Sin1000(x) ==
    LET r == ModPi(x, 2) \div 1000
    IN  IF r <= PiTimes(1) THEN HalfSine(r) ELSE 0 - HalfSine(r - PiTimes(1))

\* math.cos(x) * 1000
Cos1000(x) == Sin1000(x + PiTimes(1) \div 2)

\* faulty variant: the last two branches assign each other's component
test_pose_swapped(tt) ==
    LET delta == Sin1000(tt)
        alpha == (Cos1000(tt) * PiTimes(2)) \div 1000
        m     == ModPi(tt, 12)
        P(x, y, z, pitch, yaw, roll) == <<<<x, y, z>>, <<pitch, yaw, roll>>>>
    IN  IF m < PiMicro(2) THEN       [ret |-> P(delta, 0, 0, 0, 0, 0), t |-> tt]
        ELSE IF m < PiMicro(4) THEN  [ret |-> P(0, delta, 0, 0, 0, 0), t |-> tt]
        ELSE IF m < PiMicro(6) THEN  [ret |-> P(0, 0, delta, 0, 0, 0), t |-> tt]
        ELSE IF m < PiMicro(8) THEN  [ret |-> P(0, 0, 0, alpha, 0, 0), t |-> tt]
        ELSE IF m < PiMicro(10) THEN [ret |-> P(0, 0, 0, 0, 0, alpha), t |-> tt]
        ELSE IF m < PiMicro(12) THEN [ret |-> P(0, 0, 0, 0, alpha, 0), t |-> tt]
        ELSE                         [ret |-> P(0, 0, 0, 0, 0, 0), t |-> 0]

\* test_pose with self.t = tt: the returned tuple and the new self.t
test_pose(tt) ==
    LET delta == Sin1000(tt)
        alpha == (Cos1000(tt) * PiTimes(2)) \div 1000
        m     == ModPi(tt, 12)
        P(x, y, z, pitch, yaw, roll) == <<<<x, y, z>>, <<pitch, yaw, roll>>>>
    IN  IF m < PiMicro(2) THEN       [ret |-> P(delta, 0, 0, 0, 0, 0), t |-> tt]
        ELSE IF m < PiMicro(4) THEN  [ret |-> P(0, delta, 0, 0, 0, 0), t |-> tt]
        ELSE IF m < PiMicro(6) THEN  [ret |-> P(0, 0, delta, 0, 0, 0), t |-> tt]
        ELSE IF m < PiMicro(8) THEN  [ret |-> P(0, 0, 0, alpha, 0, 0), t |-> tt]
        ELSE IF m < PiMicro(10) THEN [ret |-> P(0, 0, 0, 0, alpha, 0), t |-> tt]
        ELSE IF m < PiMicro(12) THEN [ret |-> P(0, 0, 0, 0, 0, alpha), t |-> tt]
        ELSE                         [ret |-> P(0, 0, 0, 0, 0, 0), t |-> 0]

(***************************************************************************)
(* The PoseStamped builder.                                                *)
(***************************************************************************)
\* transformations.quaternion_from_euler(ai, aj, ak)
Quaternion(ai, aj, ak) == [ai |-> ai, aj |-> aj, ak |-> ak]

\* PoseStamped()
EmptyPose == [position    |-> <<Const(0), Const(0), Const(0)>>,
              orientation |-> Quaternion(Const(0), Const(0), Const(0))]

\* build_pose_stamped_msg after its three reads of self.hand
\* (rs = <<direction's hand, palm_position's hand, palm_normal's hand>>):
\* the message, the value test_pose returned, and the new self.t
build_pose_stamped_msg(rs, tt, test, oldtp) ==
    LET roll  == HandAngle(rs[3], "palm_normal", "roll")
        pitch == HandAngle(rs[3], "palm_normal", "pitch")
        yaw   == HandAngle(rs[1], "direction", "yaw")
        live  == Quaternion(roll, pitch, yaw)
    IN  IF ~test
        THEN [msg |-> [position    |-> [j \in 1..Len(POS_ATTRIBUTES) |->
                                          HandAngle(rs[2], "palm_position", POS_ATTRIBUTES[j])],
                       orientation |-> live],
              tp |-> oldtp, t |-> tt]
        ELSE LET r == test_pose(tt)
                 \* ((x, y, z), (pitch, yaw, roll)) = self.test_pose()
                 xyz == r.ret[1]
                 tpitch == r.ret[2][1]
                 tyaw   == r.ret[2][2]
                 troll  == r.ret[2][3]
             IN  [msg |-> [position    |-> [j \in 1..Len(POS_ATTRIBUTES) |-> Const(xyz[j])],
                           orientation |-> Quaternion(Const(troll), Const(tpitch), Const(tyaw))],
                  tp |-> r.ret, t |-> r.t]

\* faulty variant: start_transmit passes test=False
TransmitLive == FALSE

\* the argument start_transmit passes for test
TransmitTest == TRUE

(***************************************************************************)
(* Initial state: on_init has run, main has added the listener.            *)
(***************************************************************************)
InitRest ==
    /\ hand = InvalidHand
    /\ fingers = [n \in {FINGER_NAMES[i] : i \in 1..5} |-> InvalidFinger]
    /\ joint_names = <<>>
    /\ frameNo = 0
    /\ fpc = "idle"
    /\ frame = [id |-> 0, hands |-> <<>>]
    /\ flist = <<>>
    /\ shown = InvalidHand
    /\ quitting = FALSE
    /\ shutdown = FALSE
    /\ iter = 0
    /\ hreads = <<>>
    /\ freads = <<>>
    /\ pos = 0
    /\ js_msg = EmptyJointState
    /\ preads = <<>>
    /\ tp = <<<<0, 0, 0>>, <<0, 0, 0>>>>
    /\ ps_msg = EmptyPose
    /\ jsCount = 0
    /\ psCount = 0
    /\ tsCount = 0
    /\ jsOut = EmptyJointState
    /\ psOut = EmptyPose
    /\ logs = <<>>
    /\ exc = "none"
    /\ listener = TRUE
    /\ raced = FALSE
    /\ partialSeen = FALSE

Init ==
    /\ t = 0
    /\ pc = "main"
    /\ InitRest

\* LOG.v / LOG.d / LOG.e called by main or start_transmit
Log(level, text) == logs' = Append(logs, <<level, text>>)

(***************************************************************************)
(* on_frame, on the SDK thread.                                            *)
(***************************************************************************)
\* on_frame's locals once it has returned
NoFrame == Frame(0, 0, {})

\* faulty variant: a frame without a hand clears self.hand
OnFrameBeginClearing(f) ==
    /\ listener
    /\ fpc = "idle"
    /\ frameNo' = f.id
    /\ flist' = <<>>
    /\ IF Len(f.hands) = 0
       THEN /\ fpc' = "idle"
            /\ frame' = NoFrame
            /\ hand' = InvalidHand
            /\ shown' = hand'
       ELSE /\ fpc' = "set_hand"
            /\ frame' = f
            /\ UNCHANGED <<hand, shown>>
    /\ UNCHANGED <<t, fingers, joint_names, pc, ctlVars, buildVars, outVars>>

\* frame = controller.frame(); if not frame.hands.is_empty; with no hand,
\* show_data and the return
OnFrameBegin(f) ==
    /\ listener
    /\ fpc = "idle"
    /\ frameNo' = f.id
    /\ flist' = <<>>
    /\ IF Len(f.hands) = 0
       THEN /\ fpc' = "idle"
            /\ frame' = NoFrame
            /\ shown' = hand
       ELSE /\ fpc' = "set_hand"
            /\ frame' = f
            /\ UNCHANGED shown
    /\ UNCHANGED <<selfVars, pc, ctlVars, buildVars, outVars>>

\* faulty variant: self.hand = hand is missing
OnFrameSetHandLocalOnly ==
    /\ fpc = "set_hand"
    /\ flist' = SortedByType(frame.hands[1], frame.hands[1].fingers)
    /\ IF frame.hands[1].fingers = {}
       THEN /\ fpc' = "idle"
            /\ frame' = NoFrame
            /\ shown' = hand
       ELSE /\ fpc' = "fingers"
            /\ UNCHANGED <<frame, shown>>
    /\ UNCHANGED <<selfVars, frameNo, pc, ctlVars, buildVars, outVars>>

\* hand = frame.hands[0]; self.hand = hand; fingers = hand.fingers; with no
\* finger, show_data and the return
OnFrameSetHand ==
    /\ fpc = "set_hand"
    /\ hand' = frame.hands[1]
    /\ flist' = SortedByType(frame.hands[1], frame.hands[1].fingers)
    /\ IF frame.hands[1].fingers = {}
       THEN /\ fpc' = "idle"
            /\ frame' = NoFrame
            /\ shown' = hand'
       ELSE /\ fpc' = "fingers"
            /\ UNCHANGED <<frame, shown>>
    /\ UNCHANGED <<t, fingers, joint_names, frameNo, pc, ctlVars, buildVars, outVars>>

\* one pass of the finger loop: self.fingers[selected_finger] = finger; after
\* the last, show_data and the return
OnFrameFinger ==
    /\ fpc = "fingers"
    /\ fingers' = [fingers EXCEPT ![SelectedFinger(Head(flist))] = Head(flist)]
    /\ flist' = Tail(flist)
    /\ IF Tail(flist) = <<>>
       THEN /\ fpc' = "idle"
            /\ frame' = NoFrame
            /\ shown' = hand
       ELSE /\ fpc' = "fingers"
            /\ UNCHANGED <<frame, shown>>
    /\ UNCHANGED <<t, hand, joint_names, frameNo, pc, ctlVars, buildVars, outVars>>

\* the finger loop of on_frame as a whole
RECURSIVE StoreFingers(_, _)
StoreFingers(fs, list) ==
    IF list = <<>> THEN fs
    ELSE StoreFingers([fs EXCEPT ![SelectedFinger(Head(list))] = Head(list)], Tail(list))

\* on_frame as a whole, run between two steps of the main thread
OnFrame(f) ==
    /\ listener
    /\ fpc = "idle"
    /\ frameNo' = f.id
    /\ IF Len(f.hands) = 0
       THEN UNCHANGED <<hand, fingers>>
       ELSE /\ hand' = f.hands[1]
            /\ fingers' = StoreFingers(fingers,
                              SortedByType(f.hands[1], f.hands[1].fingers))
    /\ shown' = hand'
    /\ UNCHANGED <<t, joint_names, fpc, frame, flist, pc, ctlVars, buildVars, outVars>>

(***************************************************************************)
(* main and start_transmit, on the main thread.                            *)
(***************************************************************************)
\* the positions inside the try block of the publish loop
BodyPcs == {"js_begin", "js_hand", "js_fingers", "js_fill", "ps_hand",
            "ps_build", "pub_js", "pub_ps", "sleep", "inc_t"}
\* the positions of start_transmit outside the try block
OutsidePcs == {"while", "except", "set_quitting", "log_quit", "raise"}
\* the positions of main after start_transmit
MainPcs == {"main_except_quit", "main_except_ki", "remove_listener"}

\* main: LOG.v("Press ^C to quit..."), then start_transmit up to the loop
MainStart ==
    /\ pc = "main"
    /\ Log("info", "Press ^C to quit...")
    /\ pc' = "while"
    /\ UNCHANGED <<selfVars, frameVars, quitting, shutdown, iter, exc, listener,
                   buildVars, outVars>>

\* while not rospy.is_shutdown() and not quitting: the body is entered
LoopEnter(maxIter) ==
    /\ pc = "while"
    /\ ~shutdown /\ ~quitting
    /\ iter < maxIter
    /\ pc' = "js_begin"
    /\ UNCHANGED <<selfVars, frameVars, ctlVars, buildVars, outVars>>

\* while not rospy.is_shutdown() and not quitting: the loop ends
LoopExit ==
    /\ pc = "while"
    /\ shutdown \/ quitting
    /\ pc' = "log_quit"
    /\ UNCHANGED <<selfVars, frameVars, ctlVars, buildVars, outVars>>

\* build_joint_state_msg up to the hand loop
BuildJsBegin ==
    /\ pc = "js_begin"
    /\ IF joint_names = <<>>
       THEN /\ joint_names' = JointNames
            /\ Log("info", "Publishing JointState for the following joints")
       ELSE UNCHANGED <<joint_names, logs>>
    /\ js_msg' = [name |-> <<>>, position |-> Zeros(Len(joint_names'))]
    /\ pos' = 0
    /\ hreads' = <<>>
    /\ freads' = <<>>
    /\ pc' = "js_hand"
    /\ UNCHANGED <<t, hand, fingers, frameVars, quitting, shutdown, iter, exc,
                   listener, preads, tp, ps_msg, outVars>>

\* one pass of the hand loop: reads self.hand
BuildJsHand ==
    /\ pc = "js_hand"
    /\ hreads' = Append(hreads, hand)
    /\ js_msg' = JsHandStep(js_msg, pos + 1, hand)
    /\ pos' = pos + 1
    /\ pc' = IF pos + 1 = Len(ORI_ATTRIBUTES) THEN "js_fingers" ELSE "js_hand"
    /\ UNCHANGED <<selfVars, frameVars, ctlVars, freads, preads, tp, ps_msg, outVars>>

\* one element (i, finger_name, self.fingers[finger_name]) of the list the
\* finger loop runs over
BuildJsFinger ==
    /\ pc = "js_fingers"
    /\ LET i == Len(freads) + 1
       IN  freads' = Append(freads, <<i, FINGER_NAMES[i], fingers[FINGER_NAMES[i]]>>)
    /\ pc' = IF Len(freads) + 1 = Len(FINGER_NAMES) THEN "js_fill" ELSE "js_fingers"
    /\ UNCHANGED <<selfVars, frameVars, ctlVars, hreads, pos, js_msg, preads, tp,
                   ps_msg, outVars>>

\* one pass of the finger loop; after the last, the return
BuildJsFill ==
    /\ pc = "js_fill"
    /\ LET e == Head(freads)
           r == JsBoneLoop(js_msg, pos, e[2], e[3], 1)
       IN  /\ js_msg' = r.msg
           /\ pos' = r.pos
    /\ freads' = Tail(freads)
    /\ IF Tail(freads) = <<>>
       THEN /\ hreads' = <<>>
            /\ preads' = <<>>
            /\ pc' = "ps_hand"
       ELSE /\ pc' = "js_fill"
            /\ UNCHANGED <<hreads, preads>>
    /\ UNCHANGED <<selfVars, frameVars, ctlVars, tp, ps_msg, outVars>>

\* build_pose_stamped_msg: one of direction / position / normal = self.hand.<..>
BuildPsHand ==
    /\ pc = "ps_hand"
    /\ preads' = Append(preads, hand)
    /\ pc' = IF Len(preads) + 1 = 3 THEN "ps_build" ELSE "ps_hand"
    /\ UNCHANGED <<selfVars, frameVars, ctlVars, hreads, freads, pos, js_msg, tp,
                   ps_msg, outVars>>

\* build_pose_stamped_msg(test=True): the rest
BuildPs ==
    /\ pc = "ps_build"
    /\ LET r == build_pose_stamped_msg(preads, t, TransmitTest, tp)
       IN  /\ ps_msg' = r.msg
           /\ tp' = r.tp
           /\ t' = r.t
    /\ preads' = <<>>
    /\ pc' = "pub_js"
    /\ UNCHANGED <<hand, fingers, joint_names, frameVars, ctlVars,
                   hreads, freads, pos, js_msg, outVars>>

\* faulty variant: the twist message is published as well
PublishJsAndTwist ==
    /\ pc = "pub_js"
    /\ jsCount' = jsCount + 1
    /\ jsOut' = js_msg
    /\ tsCount' = tsCount + 1
    /\ pc' = "pub_ps"
    /\ UNCHANGED <<selfVars, frameVars, ctlVars, buildVars, psCount, psOut>>

\* self.js_pub.publish(js_msg)
PublishJs ==
    /\ pc = "pub_js"
    /\ jsCount' = jsCount + 1
    /\ jsOut' = js_msg
    /\ pc' = "pub_ps"
    /\ UNCHANGED <<selfVars, frameVars, ctlVars, buildVars, psCount, tsCount, psOut>>

\* self.ps_pub.publish(ps_msg)
PublishPs ==
    /\ pc = "pub_ps"
    /\ psCount' = psCount + 1
    /\ psOut' = ps_msg
    /\ pc' = "sleep"
    /\ UNCHANGED <<selfVars, frameVars, ctlVars, buildVars, jsCount, tsCount, jsOut>>

\* self.r.sleep()
Sleep ==
    /\ pc = "sleep"
    /\ pc' = "inc_t"
    /\ UNCHANGED <<selfVars, frameVars, ctlVars, buildVars, outVars>>

\* self.t += 0.01
IncT ==
    /\ pc = "inc_t"
    /\ t' = t + STEP
    /\ iter' = iter + 1
    /\ pc' = "while"
    /\ UNCHANGED <<hand, fingers, joint_names, frameVars, quitting, shutdown,
                   logs, exc, listener, buildVars, outVars>>

\* a KeyboardInterrupt raised inside the try block
Interrupt ==
    /\ pc \in BodyPcs
    /\ pc' = "except"
    /\ UNCHANGED <<selfVars, frameVars, ctlVars, buildVars, outVars>>

\* except KeyboardInterrupt: LOG.e(...)
ExceptLog ==
    /\ pc = "except"
    /\ Log("error", "KeyboardInterrupt detected")
    /\ pc' = "set_quitting"
    /\ UNCHANGED <<selfVars, frameVars, quitting, shutdown, iter, exc, listener,
                   buildVars, outVars>>

\* faulty variant: the except clause does not set quitting
SetQuittingMissing ==
    /\ pc = "set_quitting"
    /\ pc' = "while"
    /\ UNCHANGED <<selfVars, frameVars, ctlVars, buildVars, outVars>>

\* quitting = True
SetQuitting ==
    /\ pc = "set_quitting"
    /\ quitting' = TRUE
    /\ pc' = "while"
    /\ UNCHANGED <<selfVars, frameVars, shutdown, iter, logs, exc, listener,
                   buildVars, outVars>>

\* faulty variant: nothing is logged after the loop
LogQuitSilent ==
    /\ pc = "log_quit"
    /\ pc' = "raise"
    /\ UNCHANGED <<selfVars, frameVars, ctlVars, buildVars, outVars>>

\* LOG.d("Quit command sent to client", "main")
LogQuit ==
    /\ pc = "log_quit"
    /\ Log("debug", "Quit command sent to client")
    /\ pc' = "raise"
    /\ UNCHANGED <<selfVars, frameVars, quitting, shutdown, iter, exc, listener,
                   buildVars, outVars>>

\* raise QuitMessageException(...), caught by main
Raise ==
    /\ pc = "raise"
    /\ exc' = "QuitMessageException"
    /\ pc' = "main_except_quit"
    /\ UNCHANGED <<selfVars, frameVars, quitting, shutdown, iter, logs, listener,
                   buildVars, outVars>>

\* a KeyboardInterrupt raised in start_transmit outside the try block, caught by main
InterruptOutside ==
    /\ pc \in OutsidePcs
    /\ exc' = "KeyboardInterrupt"
    /\ pc' = "main_except_ki"
    /\ UNCHANGED <<selfVars, frameVars, quitting, shutdown, iter, logs, listener,
                   buildVars, outVars>>

\* except QuitMessageException as e: LOG.e(e, "main")
MainExceptQuit ==
    /\ pc = "main_except_quit"
    /\ Log("error", "Quit message received from client")
    /\ pc' = "remove_listener"
    /\ UNCHANGED <<selfVars, frameVars, quitting, shutdown, iter, exc, listener,
                   buildVars, outVars>>

\* except KeyboardInterrupt as e: LOG.e("Interrupted by user", "main")
MainExceptKI ==
    /\ pc = "main_except_ki"
    /\ Log("error", "Interrupted by user")
    /\ pc' = "remove_listener"
    /\ UNCHANGED <<selfVars, frameVars, quitting, shutdown, iter, exc, listener,
                   buildVars, outVars>>

\* a KeyboardInterrupt raised in main's handlers or after them: not caught
InterruptMain ==
    /\ pc \in MainPcs
    /\ exc' = "KeyboardInterrupt"
    /\ pc' = "crashed"
    /\ UNCHANGED <<selfVars, frameVars, quitting, shutdown, iter, logs, listener,
                   buildVars, outVars>>

\* controller.remove_listener(leap_server)
RemoveListener ==
    /\ pc = "remove_listener"
    /\ listener' = FALSE
    /\ pc' = "done"
    /\ UNCHANGED <<selfVars, frameVars, quitting, shutdown, iter, logs, exc,
                   buildVars, outVars>>

\* rospy is shut down while start_transmit runs
Shutdown ==
    /\ pc \in BodyPcs \cup OutsidePcs
    /\ ~shutdown
    /\ shutdown' = TRUE
    /\ UNCHANGED <<selfVars, frameVars, pc, quitting, iter, logs, exc, listener,
                   buildVars, outVars>>

(***************************************************************************)
(* History of the interleaving.                                            *)
(***************************************************************************)
\* the positions of build_joint_state_msg
BuildJsPcs == {"js_begin", "js_hand", "js_fingers", "js_fill"}

History ==
    /\ raced' = ((IF pc' = "js_begin" /\ pc # "js_begin" THEN FALSE ELSE raced)
                 \/ (pc' \in BuildJsPcs /\ fpc' # "idle"))
    /\ partialSeen' = (partialSeen
                       \/ (Len(frame'.hands) > 0 /\ frame'.hands[1].fingers # FingerTypes))

NoHistory == UNCHANGED <<raced, partialSeen>>

(***************************************************************************)
(* The program: the SDK thread delivering frames, and the main thread.     *)
(***************************************************************************)
FrameThread(maxFrames) ==
    \/ \E f \in Frames(frameNo + 1) : frameNo < maxFrames /\ OnFrameBegin(f)
    \/ OnFrameSetHand
    \/ OnFrameFinger

\* the publish loop while nothing interrupts it
LoopSteps(maxIter) ==
    \/ MainStart
    \/ LoopEnter(maxIter)
    \/ BuildJsBegin
    \/ BuildJsHand
    \/ BuildJsFinger
    \/ BuildJsFill
    \/ BuildPsHand
    \/ BuildPs
    \/ PublishJs
    \/ PublishPs
    \/ Sleep
    \/ IncT

\* interrupts, shutdown, and the way out of start_transmit and main
Termination ==
    \/ LoopExit
    \/ Interrupt
    \/ ExceptLog
    \/ SetQuitting
    \/ LogQuit
    \/ Raise
    \/ InterruptOutside
    \/ MainExceptQuit
    \/ MainExceptKI
    \/ InterruptMain
    \/ RemoveListener
    \/ Shutdown

\* the main thread, with interrupts and shutdown, no frame arriving
Next == (LoopSteps(MaxIter) \/ Termination) /\ History

Spec == Init /\ [][Next]_vars

\* the SDK thread against one uninterrupted pass of the publish loop
NextRace == (FrameThread(MaxFrames) \/ LoopSteps(MaxRaceIter)) /\ History

SpecRace == Init /\ [][NextRace]_vars

\* whole callbacks between the steps of several uninterrupted passes of the
\* publish loop
FrameCallback(maxFrames) ==
    \E f \in Frames(frameNo + 1) : frameNo < maxFrames /\ OnFrame(f)

NextFeed == (FrameCallback(MaxFeedFrames) \/ LoopSteps(MaxFeedIter)) /\ NoHistory

SpecFeed == Init /\ [][NextFeed]_vars

\* the SDK thread on its own: a sequence of callbacks
NextFrames == FrameThread(MaxSeqFrames) /\ NoHistory

SpecFrames == Init /\ [][NextFrames]_vars

(***************************************************************************)
(* test_pose on its own: called with any self.t up to MaxPoseT, and again  *)
(* after each advance of self.t by one step.                               *)
(***************************************************************************)
InitPose ==
    /\ t \in 0..MaxPoseT
    /\ pc = "test_pose"
    /\ InitRest

\* ((x, y, z), (pitch, yaw, roll)) = self.test_pose()
PoseCall ==
    /\ pc = "test_pose"
    /\ tp' = test_pose(t).ret
    /\ t' = test_pose(t).t
    /\ pc' = "test_pose_done"
    /\ UNCHANGED <<hand, fingers, joint_names, frameVars, ctlVars, hreads, freads,
                   pos, js_msg, preads, ps_msg, outVars, raced, partialSeen>>

\* self.t += 0.01
PoseTick ==
    /\ pc = "test_pose_done"
    /\ t + STEP <= MaxPoseT
    /\ t' = t + STEP
    /\ pc' = "test_pose"
    /\ UNCHANGED <<hand, fingers, joint_names, frameVars, ctlVars, buildVars,
                   outVars, raced, partialSeen>>

NextPose == PoseCall \/ PoseTick

SpecPose == InitPose /\ [][NextPose]_vars

\* the two statements of the publish loop that touch self.t, from self.t = 0:
\* test_pose once per pass, then the advance by one step
InitCycle ==
    /\ t = 0
    /\ pc = "test_pose"
    /\ InitRest

SpecCycle == InitCycle /\ [][NextPose]_vars

(***************************************************************************)
(* Properties.                                                             *)
(***************************************************************************)
\* the frames whose readings a JointState message carries
FramesOf(msg) == { msg.position[i][1] : i \in 1..Len(msg.position) }
\* a message that carries readings of more than one frame
Mixed(msg) == Cardinality(FramesOf(msg)) > 1
\* positions at which js_msg is the message build_joint_state_msg returned
ReturnedPcs == {"ps_hand", "ps_build", "pub_js", "pub_ps", "sleep", "inc_t"}
\* the except clause of the publish loop has been entered
Caught ==
    \/ pc \in {"except", "set_quitting"}
    \/ \E i \in 1..Len(logs) : logs[i][2] = "KeyboardInterrupt detected"
\* the log calls made since the except clause was entered
LogsSinceCaught ==
    LET hits == { i \in 1..Len(logs) : logs[i][2] = "KeyboardInterrupt detected" }
    IN  IF hits = {} THEN logs
        ELSE LET first == CHOOSE i \in hits : \A j \in hits : i <= j
             IN  SubSeq(logs, first, Len(logs))

C1_Fingers == <<"thumb", "index", "middle", "ring", "pinky">>
C1_Bones   == <<"meta", "prox", "mid", "dist">>
C1_Oris    == <<"roll", "pitch", "yaw">>
\* the fixed sequence of joint names
C1_Names ==
    [i \in 1..(3 + 5 * 4 * 3) |->
        IF i <= 3 THEN <<"hand", C1_Oris[i]>>
        ELSE LET q == i - 4
             IN  <<C1_Fingers[(q \div 12) + 1], C1_Bones[((q \div 3) % 4) + 1], C1_Oris[(q % 3) + 1]>>]
\* position[i] is the reading of the joint that name[i] names
C1_ValueFor(msg, i) ==
    LET n == msg.name[i]
        v == msg.position[i]
    IN  IF n[1] = "hand"
        THEN /\ Len(v) = 4
             /\ v[4] = n[2]
             /\ v[3] = (IF n[2] = "roll" THEN "palm_normal" ELSE "direction")
        ELSE /\ Len(v) = 5
             /\ v[5] = n[3]
             /\ v[4] \in 0..3
             /\ C1_Bones[v[4] + 1] = n[2]
             /\ IF v[3] \in 0..4 THEN C1_Fingers[v[3] + 1] = n[1] ELSE v[3] = -1
C1_Wellformed(msg) ==
    /\ Len(msg.name) = 3 + 5 * 4 * 3
    /\ Len(msg.position) = Len(msg.name)
    /\ msg.name = C1_Names
    /\ msg.name = joint_names
    /\ \A i \in 1..Len(msg.name) : C1_ValueFor(msg, i)

\* C1: every JointState message build_joint_state_msg returns, and every one
\* published, on the first call and on later ones and whatever self.hand and
\* self.fingers hold, has 63 names and 63 positions, its names are the fixed
\* sequence hand.roll, hand.pitch, hand.yaw, thumb.meta.roll, ..., pinky.dist.yaw,
\* equal to the cached self.joint_names, and position[i] is the reading of the
\* joint name[i] names.
C1_JointStateShape ==
    /\ pc \in ReturnedPcs => C1_Wellformed(js_msg)
    /\ jsCount > 0 => C1_Wellformed(jsOut)
    /\ joint_names \in {<<>>, C1_Names}

\* a second message has been published and carries readings of frame 1
C1_Witness == jsCount = 2 /\ 1 \in FramesOf(jsOut) /\ C1_Wellformed(jsOut)

\* the phase of the test generator: floor((t mod 12 pi) / 2 pi)
PhaseOf(tt) == ModPi(tt, 12) \div PiMicro(2)
\* what the claim says test_pose returns for self.t = tt
C2_Expected(tt) ==
    LET k     == PhaseOf(tt)
        delta == Sin1000(tt)
        alpha == (Cos1000(tt) * PiTimes(2)) \div 1000
        e     == [i \in 1..6 |-> IF i # k + 1 THEN 0 ELSE IF i <= 3 THEN delta ELSE alpha]
    IN  <<<<e[1], e[2], e[3]>>, <<e[4], e[5], e[6]>>>>

\* C2: for every t, test_pose returns ((x, y, z), (pitch, yaw, roll)) with only
\* the component of phase k = floor((t mod 12 pi) / 2 pi) driven (0: x, 1: y,
\* 2: z, 3: pitch, 4: yaw, 5: roll), positions with sin(t) * 1000 and
\* orientations with cos(t) * 2 pi, the other five zero; and as t advances by
\* one step the phase stays or moves to the next one in that order.
C2_TestPosePhases ==
    [][ /\ pc' = "test_pose_done" => tp' = C2_Expected(t)
        /\ pc' = "test_pose_done" => t' = t
        /\ (pc = "test_pose_done" /\ pc' = "test_pose")
              => PhaseOf(t') \in {PhaseOf(t), (PhaseOf(t) + 1) % 6} ]_vars

\* test_pose has been called in the roll phase of the second cycle
C2_Witness ==
    /\ pc = "test_pose_done"
    /\ t > PiTimes(12)
    /\ PhaseOf(t) = 5
    /\ tp[2][3] # 0
    /\ tp[1] = <<0, 0, 0>>

\* C3: with test_pose called once per pass and t advanced by one step after it,
\* from t = 0, t never exceeds 12 pi plus one step (it is reset to zero after a
\* full cycle).
C3_TResetAfterCycle == t <= PiTimes(12) + STEP

\* C4: once the except clause of the publish loop is entered, no loop pass
\* starts, nothing is published and t is not advanced; start_transmit is left
\* only by an exception, which main catches before it removes the listener, and
\* the statement after the loop raises QuitMessageException, after an interrupt
\* as after a shutdown.
C4_InterruptStopsLoop ==
    [][ /\ Caught => /\ pc' \notin BodyPcs
                     /\ jsCount' = jsCount /\ psCount' = psCount /\ tsCount' = tsCount
                     /\ t' = t /\ iter' = iter
        /\ (pc \in BodyPcs \cup OutsidePcs /\ pc' \notin BodyPcs \cup OutsidePcs)
              => /\ pc' \in {"main_except_quit", "main_except_ki"}
                 /\ exc' = (IF pc = "raise" /\ pc' = "main_except_quit"
                            THEN "QuitMessageException" ELSE "KeyboardInterrupt")
                 /\ pc' = "main_except_quit" => pc = "raise"
        /\ (pc = "while" /\ pc' = "log_quit") => (shutdown \/ quitting)
        /\ (pc = "while" /\ pc' = "js_begin") => (~shutdown /\ ~quitting)
        /\ (pc' = "remove_listener" /\ pc # "remove_listener")
              => (pc \in {"main_except_quit", "main_except_ki"} /\ listener)
      ]_vars

\* an interrupt between the two publishes was caught, QuitMessageException was
\* raised and caught by main, which is about to remove the listener
C4_Witness ==
    /\ pc = "remove_listener"
    /\ exc = "QuitMessageException"
    /\ quitting /\ ~shutdown
    /\ jsCount = psCount + 1

\* C5 as stated: from the catch of the KeyboardInterrupt until main reaches
\* remove_listener exactly one log call is made.
C5_SingleMessage ==
    (pc = "remove_listener" /\ Caught) => Len(LogsSinceCaught) = 1

\* C5 as amended: when the KeyboardInterrupt was caught in the loop and
\* start_transmit went on to raise QuitMessageException, three log calls are
\* made until main reaches remove_listener: an error, a debug and an error one.
C5_ThreeLogCalls ==
    (pc = "remove_listener" /\ Caught /\ exc = "QuitMessageException")
        => LogsSinceCaught = << <<"error", "KeyboardInterrupt detected">>,
                                <<"debug", "Quit command sent to client">>,
                                <<"error", "Quit message received from client">> >>

\* main is about to remove the listener after a caught interrupt
C5_Witness == pc = "remove_listener" /\ Caught /\ exc = "QuitMessageException"

C7_MixedOnlyByRace ==
    (pc = "pub_ps" /\ Mixed(jsOut)) => (raced \/ partialSeen)

\* every frame so far had all five fingers, and the message just published
\* carries readings of frame 1 and of frame 2
C7_Witness ==
    /\ pc = "pub_ps"
    /\ ~partialSeen
    /\ raced
    /\ {1, 2} \subseteq FramesOf(jsOut)

\* C8: a frame without a hand leaves self.hand, self.fingers, self.t and
\* self.joint_names as they are; a frame with hands makes self.hand its first
\* hand, and nothing of another hand is stored.
C8_LastKnownHand ==
    [][ /\ (fpc = "idle" /\ fpc' = "idle" /\ frameNo' # frameNo)
              => (hand' = hand /\ fingers' = fingers /\ t' = t
                  /\ joint_names' = joint_names)
        /\ (fpc # "idle" /\ fpc' = "idle")
              => (hand' = frame.hands[1] /\ hand'.frame = frameNo /\ hand'.idx = 1)
        /\ hand' # hand => (fpc = "set_hand" /\ hand' = frame.hands[1])
        /\ (fpc' # fpc \/ frameNo' # frameNo) => (t' = t /\ joint_names' = joint_names)
        /\ \A i \in 1..Len(FINGER_NAMES) : fingers'[FINGER_NAMES[i]].idx \in {0, 1}
      ]_vars

\* frame 2 had no hand: the hand of frame 1 is still the last known one
C8_Witness ==
    /\ frameNo = 2
    /\ fpc = "idle"
    /\ hand.frame = 1 /\ hand.idx = 1
    /\ shown = hand

\* C10: self.fingers always has the five keys; the entry of a finger name is
\* the initial Finger or a finger of that name's type; an entry changes only
\* in on_frame's finger loop, to the finger of its type of the frame's first
\* hand; when on_frame returns every finger of that hand has been stored.
C10_FingerEntries ==
    [][ /\ DOMAIN fingers' = {"thumb", "index", "middle", "ring", "pinky"}
        /\ \A i \in 1..5 :
              LET n == C1_Fingers[i]
              IN  /\ fingers'[n] = InvalidFinger \/ fingers'[n].type = i - 1
                  /\ fingers'[n] # fingers[n]
                        => /\ fpc = "fingers"
                           /\ (i - 1) \in frame.hands[1].fingers
                           /\ fingers'[n] = FingerOf(frame.hands[1], i - 1)
        /\ (fpc # "idle" /\ fpc' = "idle")
              => \A ty \in frame.hands[1].fingers :
                    fingers'[C1_Fingers[ty + 1]] = FingerOf(frame.hands[1], ty)
      ]_vars

\* after a full frame 1 and a frame 2 with thumb, middle and pinky only:
\* the hand and those fingers are of frame 2, index and ring still of frame 1
C10_Witness ==
    /\ fpc = "idle" /\ frameNo = 2
    /\ hand.frame = 2
    /\ fingers["thumb"].frame = 2 /\ fingers["pinky"].frame = 2
    /\ fingers["index"].frame = 1 /\ fingers["ring"].frame = 1

\* the pose the test generator gives for self.t = tt
C9_PoseAt(tt) ==
    LET r == test_pose(tt).ret
    IN  [position    |-> <<Const(r[1][1]), Const(r[1][2]), Const(r[1][3])>>,
         orientation |-> Quaternion(Const(r[2][3]), Const(r[2][1]), Const(r[2][2]))]

====
